---- MODULE Spec2Model ----
(***************************************************************************)
(* Model of the EXIF/TIFF tag lookup of imgindex (src/imgmeta/basic.go):   *)
(* tEXIFAPP.ReadValue walks the IFDs of an APP1 block with a work list and *)
(* decodes the first entry whose tag ID matches.                           *)
(*                                                                         *)
(* The APP1 block is a sequence of bytes (Go index i is block[i+1]).       *)
(* A uint32 is the pair <<high 16 bits, low 16 bits>>, so that additions   *)
(* and multiplications wrap modulo 2^32 as they do in Go.  A block's       *)
(* capacity is taken to be its length.                                     *)
(***************************************************************************)
EXTENDS Integers, Sequences, FiniteSets, TLC

\* ---------------------------------------------------------------- bounds
MaxEntries == 2        \* entries of IFD0 in a generated block
MaxSubEntries == 1     \* entries of a generated sub-IFD
MaxCount == 3          \* components of a generated value entry
MaxLookups == 3        \* lookups made one after the other on one block

\* ------------------------------------------------------------- constants
cARRAY == 256
cUBYTE == 1
cASCII == 2
cUSHORT == 3
cULONG == 4
cURATIONAL == 5
cSBYTE == 6
cUNDEFINED == 7
cSSHORT == 8
cSLONG == 9
cSRATIONAL == 10
cFLOAT32 == 11
cFLOAT64 == 12
aExifTagFieldSize == <<0, 1, 1, 2, 4, 8, 1, 1, 2, 4, 8, 4, 8>>
getExifTagFieldSize(fieldType) == aExifTagFieldSize[fieldType + 1]

\* Declared outside the files at hand: the "II" marker and the IFD kinds,
\* which double as the tag IDs of the pointer entries.
cINTEL == 18761
cIFDZERO == 0
cIFDEXIF == 34665
cIFDGPS == 34853
cIFDINTEROP == 40965

ExifTagOrientation == 274
ExifGpsTagGPSAltitudeRef == 5

\* ------------------------------------------------------ uint32 arithmetic
W == 256 * 256

U32(n) == <<n \div W, n % W>>
Add32(a, b) == <<(a[1] + b[1] + ((a[2] + b[2]) \div W)) % W, (a[2] + b[2]) % W>>
MulK32(a, k) == <<(a[1] * k + ((a[2] * k) \div W)) % W, (a[2] * k) % W>>
Le32(a, b) == a[1] < b[1] \/ (a[1] = b[1] /\ a[2] <= b[2])
Lt32(a, b) == a[1] < b[1] \/ (a[1] = b[1] /\ a[2] < b[2])
\* a uint32 used as a slice bound of a block of length n (n < 2^16)
Within(a, n) == a[1] = 0 /\ a[2] <= n

\* ------------------------------------------------------------ byte reads
At(b, i) == b[i + 1]
LittleEndianUint16(b, o) == At(b, o) + 256 * At(b, o + 1)
BigEndianUint16(b, o) == 256 * At(b, o) + At(b, o + 1)
LittleEndianUint32(b, o) == <<LittleEndianUint16(b, o + 2), LittleEndianUint16(b, o)>>
BigEndianUint32(b, o) == <<BigEndianUint16(b, o), BigEndianUint16(b, o + 2)>>
Uint16(endian, b, o) ==
    IF endian = "LittleEndian" THEN LittleEndianUint16(b, o) ELSE BigEndianUint16(b, o)
Uint32(endian, b, o) ==
    IF endian = "LittleEndian" THEN LittleEndianUint32(b, o) ELSE BigEndianUint32(b, o)
\* a uint64 is the pair <<high uint32, low uint32>>
Uint64(endian, b, o) ==
    IF endian = "LittleEndian" THEN <<LittleEndianUint32(b, o + 4), LittleEndianUint32(b, o)>>
    ELSE <<BigEndianUint32(b, o), BigEndianUint32(b, o + 4)>>

\* A call either yields a value or panics (slice bounds / index out of range).
Ok(v) == [ok |-> TRUE, v |-> v]
Panic == [ok |-> FALSE, v |-> "panic"]

\* ------------------------------------------------------------- identifier
ExifID == <<69, 120, 105, 102, 0, 0>>      \* "Exif\0\0"
HasID(block, cid) ==
    IF Len(block) < 4 + Len(cid) THEN Panic
    ELSE Ok(\A k \in 1..Len(cid) : block[4 + k] = cid[k])

\* ------------------------------------------------------------ TIFF header
TIFFByteOrder(block) ==
    IF Len(block) < 12 THEN Panic
    ELSE Ok(IF BigEndianUint16(block, 10) = cINTEL THEN "LittleEndian" ELSE "BigEndian")

TIFFOffsetToIFD0(block) ==
    LET endian == TIFFByteOrder(block) IN
    IF ~endian.ok THEN Panic
    ELSE IF Len(block) < 18 THEN Panic
    ELSE Ok(Uint32(endian.v, block, 14))

\* -------------------------------------------------------------- tExifIFD
tExifIFD(offset, block, endian) == [offset |-> offset, appblock |-> block, endian |-> endian]

NumberOfTags(ifd) ==
    IF ~Within(ifd.offset, Len(ifd.appblock)) THEN Panic
    ELSE IF ifd.offset[2] + 2 > Len(ifd.appblock) THEN Panic
    ELSE Ok(Uint16(ifd.endian, ifd.appblock, ifd.offset[2]))

GetTag(ifd, index) ==
    LET o == Add32(Add32(ifd.offset, U32(2)), MulK32(U32(index), 12))
        h == Add32(o, U32(12))
    IN IF Le32(o, h) /\ Within(h, Len(ifd.appblock))
       THEN Ok([endian |-> ifd.endian, offset |-> 0,
                appblock |-> SubSeq(ifd.appblock, o[2] + 1, h[2])])
       ELSE Panic

\* -------------------------------------------------------------- tExifTag
TagID(tag) == Uint16(tag.endian, tag.appblock, tag.offset)
countOrComponents(tag) == Uint32(tag.endian, tag.appblock, tag.offset + 4)
valueOrOffset(tag) == Uint32(tag.endian, tag.appblock, tag.offset + 8)
valueAsFloat32(tag) == LittleEndianUint32(tag.appblock, tag.offset + 8)
Or16(flag, x) == IF (x \div flag) % 2 = 1 THEN x ELSE x + flag
\* A variant of TypeID that leaves rationals and floats without the array
\* flag, whatever the count.
TypeIDScalarFractions(tag) ==
    IF Lt32(U32(1), countOrComponents(tag))
       /\ Uint16(tag.endian, tag.appblock, tag.offset + 2)
              \notin {cURATIONAL, cSRATIONAL, cFLOAT32, cFLOAT64}
    THEN Or16(cARRAY, Uint16(tag.endian, tag.appblock, tag.offset + 2))
    ELSE Uint16(tag.endian, tag.appblock, tag.offset + 2)
TypeID(tag) ==
    IF Lt32(U32(1), countOrComponents(tag))
    THEN Or16(cARRAY, Uint16(tag.endian, tag.appblock, tag.offset + 2))
    ELSE Uint16(tag.endian, tag.appblock, tag.offset + 2)

\* ------------------------------------------------------- decoded values
\* Go conversions of a uint32 to the narrower and signed types.
AsUint8(p) == p[2] % 256
\* A variant of AsUint16 that keeps the high half of the slot.
AsUint16HighHalf(p) == p[1]
AsUint16(p) == p[2]
AsInt8(n) == IF n % 256 < 128 THEN n % 256 ELSE (n % 256) - 256
AsInt16(n) == IF n < 32768 THEN n ELSE n - W
AsInt32(p) == IF p[1] < 32768 THEN p[1] * W + p[2] ELSE (p[1] - W) * W + p[2]

Val(t, v) == [t |-> t, v |-> v]
Ret(val, err) == [val |-> val, err |-> err]
errReadValue == "Reading EXIF tag value failed"
errReadValueFromOffset == "Reading EXIF tag value from offset failed"

\* Go's float64(numerator) / float64(denominator): IEEE-754 division, which
\* yields an infinity or NaN for a zero denominator and never panics.  A
\* finite quotient is kept as the pair it is the quotient of.
Float64(class, num, den) == Val("float64", [class |-> class, num |-> num, den |-> den])
\* A variant of divideUint32 that refuses a zero denominator.
divideUint32Checked(num, den) ==
    IF den # U32(0) THEN Float64("uquot", num, den)
    ELSE Val("int", 0)
divideUint32(num, den) ==
    IF den # U32(0) THEN Float64("uquot", num, den)
    ELSE IF num = U32(0) THEN Float64("NaN", num, den)
    ELSE Float64("+Inf", num, den)
divideInt32(num, den) ==
    IF den # 0 THEN Float64("squot", num, den)
    ELSE IF num = 0 THEN Float64("NaN", num, den)
    ELSE IF num > 0 THEN Float64("+Inf", num, den)
    ELSE Float64("-Inf", num, den)

\* A variant of valueOffset that counts from the TIFF header.
valueOffsetFromHeader(ifd, offset) == Add32(U32(10), offset)
\* basic.go 300, 304, ..., 344, 348: where an out-of-line value starts.
valueOffset(ifd, offset) == Add32(ifd.offset, offset)

\* Elements of an array of count elements of width w read at byte o.
ArrayOf(ifd, o, count, w, t) ==
    [i \in 1..count |->
        LET p == o + (i - 1) * w IN
        IF t = "uint8" THEN At(ifd.appblock, p)
        ELSE IF t = "int8" THEN AsInt8(At(ifd.appblock, p))
        ELSE IF t = "uint16" THEN Uint16(ifd.endian, ifd.appblock, p)
        ELSE IF t = "int16" THEN AsInt16(Uint16(ifd.endian, ifd.appblock, p))
        ELSE IF t = "uint32" THEN Uint32(ifd.endian, ifd.appblock, p)
        ELSE AsInt32(Uint32(ifd.endian, ifd.appblock, p))]

\* One array case of readValueFromOffset: slice [offset, offset+count*w),
\* then count elements; a count*w that wrapped makes the element loop
\* run past the slice.
readArray(ifd, offset, count, w, t) ==
    LET lo == valueOffset(ifd, offset)
        hi == Add32(lo, MulK32(count, w))
    IN IF ~(Le32(lo, hi) /\ Within(hi, Len(ifd.appblock))) THEN Panic
       ELSE IF count # U32((hi[2] - lo[2]) \div w) THEN Panic
       ELSE Ok(Ret([t |-> "slice", elem |-> t, v |-> ArrayOf(ifd, lo[2], count[2], w, t)], "nil"))

readValueFromOffset(ifd, offset, typeID, count) ==
    LET s == valueOffset(ifd, offset) IN
    CASE typeID = Or16(cARRAY, cUBYTE) -> readArray(ifd, offset, count, 1, "uint8")
      [] typeID = Or16(cARRAY, cUSHORT) -> readArray(ifd, offset, count, 2, "uint16")
      [] typeID = Or16(cARRAY, cULONG) -> readArray(ifd, offset, count, 4, "uint32")
      [] typeID = Or16(cARRAY, cSBYTE) -> readArray(ifd, offset, count, 1, "int8")
      [] typeID = Or16(cARRAY, cSSHORT) -> readArray(ifd, offset, count, 2, "int16")
      [] typeID = Or16(cARRAY, cSLONG) -> readArray(ifd, offset, count, 4, "int32")
      [] typeID = cFLOAT64 ->
            IF Within(s, Len(ifd.appblock)) /\ s[2] + 8 <= Len(ifd.appblock)
            THEN Ok(Ret(Val("float64", [class |-> "bits",
                                        bits |-> Uint64(ifd.endian, ifd.appblock, s[2])]),
                        "nil"))
            ELSE Panic
      [] typeID = cURATIONAL ->
            IF Within(s, Len(ifd.appblock)) /\ s[2] + 8 <= Len(ifd.appblock)
            THEN Ok(Ret(divideUint32(Uint32(ifd.endian, ifd.appblock, s[2]),
                                     Uint32(ifd.endian, ifd.appblock, s[2] + 4)),
                        "nil"))
            ELSE Panic
      [] typeID = cSRATIONAL ->
            IF Within(s, Len(ifd.appblock)) /\ s[2] + 8 <= Len(ifd.appblock)
            THEN Ok(Ret(divideInt32(AsInt32(Uint32(ifd.endian, ifd.appblock, s[2])),
                                    AsInt32(Uint32(ifd.endian, ifd.appblock, s[2] + 4))),
                        "nil"))
            ELSE Panic
      [] OTHER -> Ok(Ret(Val("int", 0), errReadValueFromOffset))

ReadValue(ifd, tag) ==
    LET typeID == TypeID(tag)
        v == valueOrOffset(tag)
    IN CASE typeID = cUBYTE -> Ok(Ret(Val("uint8", AsUint8(v)), "nil"))
         [] typeID = cUSHORT -> Ok(Ret(Val("uint16", AsUint16(v)), "nil"))
         [] typeID = cULONG -> Ok(Ret(Val("uint32", v), "nil"))
         [] typeID = cSBYTE -> Ok(Ret(Val("int8", AsInt8(AsUint8(v))), "nil"))
         [] typeID = cSSHORT -> Ok(Ret(Val("int16", AsInt16(AsUint16(v))), "nil"))
         [] typeID = cSLONG -> Ok(Ret(Val("int32", AsInt32(v)), "nil"))
         [] typeID = cFLOAT32 -> Ok(Ret(Val("float32", [bits |-> valueAsFloat32(tag)]), "nil"))
         [] typeID \in {cFLOAT64, cURATIONAL, cSRATIONAL,
                        Or16(cARRAY, cUBYTE), Or16(cARRAY, cUSHORT), Or16(cARRAY, cULONG),
                        Or16(cARRAY, cSBYTE), Or16(cARRAY, cSSHORT), Or16(cARRAY, cSLONG)} ->
                readValueFromOffset(ifd, v, typeID, countOrComponents(tag))
         [] OTHER -> Ok(Ret(Val("int", 0), errReadValue))

\* ------------------------------------------------------ generated blocks
\* An APP1 block: marker, length, "Exif\0\0", the TIFF header, then four IFD
\* slots (IFD0, EXIF, GPS, Interop) at fixed offsets from the TIFF header.
Ifd0Off == 2 + 2 + 4    \* IFD0 right after the 8-byte TIFF header
Ifd0Size == 2 + 12 * MaxEntries + 4
SubSize == 2 + 12 * MaxSubEntries + 4
ExifOff == Ifd0Off + Ifd0Size
GpsOff == ExifOff + SubSize
InteropOff == GpsOff + SubSize
FullLen == 10 + InteropOff + SubSize
\* A pointer value that makes tiffOffset + value wrap around to byte 9.
WrapOff == <<W - 1, W - 1>>

Orders == {"II", "MM"}
Bytes16(order, n) ==
    IF order = "II" THEN <<n % 256, n \div 256>> ELSE <<n \div 256, n % 256>>
Bytes32(order, p) ==
    IF order = "II" THEN Bytes16(order, p[2]) \o Bytes16(order, p[1])
    ELSE Bytes16(order, p[1]) \o Bytes16(order, p[2])

\* An entry: tag, type, count and the 4-byte slot.  A scalar narrower than
\* the slot is left-aligned in it, as the format prescribes.
PtrEntry(tag, off) == [tag |-> tag, type |-> cULONG, count |-> 1, width |-> 4, val |-> off]
PtrTo(tag, off) == PtrEntry(tag, U32(off))
OrientEntry == [tag |-> ExifTagOrientation, type |-> cUSHORT, count |-> 1, width |-> 2, val |-> 1]
AltRefEntry == [tag |-> ExifGpsTagGPSAltitudeRef, type |-> cUBYTE, count |-> 1, width |-> 1, val |-> 1]

SlotBytes(order, e) ==
    IF e.width = 4 THEN Bytes32(order, e.val)
    ELSE IF e.width = 2 THEN Bytes16(order, e.val) \o <<0, 0>>
    ELSE <<e.val, 0, 0, 0>>
EntryBytes(order, e) ==
    Bytes16(order, e.tag) \o Bytes16(order, e.type) \o Bytes32(order, U32(e.count))
        \o SlotBytes(order, e)

RECURSIVE EntriesBytes(_, _)
EntriesBytes(order, es) ==
    IF es = <<>> THEN <<>> ELSE EntryBytes(order, Head(es)) \o EntriesBytes(order, Tail(es))

Zeros(n) == [k \in 1..n |-> 0]
IfdBytes(order, es, size) ==
    LET body == Bytes16(order, Len(es)) \o EntriesBytes(order, es) \o Zeros(4)
    IN body \o Zeros(size - Len(body))

HeaderBytes(order, sig) ==
    <<255, 225>> \o Bytes16("MM", FullLen - 2) \o <<69, 120, 105, 102, 0, 0>>
        \o (IF order = "II" THEN <<73, 73>> ELSE <<77, 77>>)
        \o Bytes16(order, sig) \o Bytes32(order, U32(Ifd0Off))

SeqsUpTo(S, n) == UNION {[1..k -> S] : k \in 0..n}

Pool0 == {OrientEntry, PtrTo(cIFDEXIF, ExifOff), PtrTo(cIFDEXIF, Ifd0Off),
          PtrTo(cIFDGPS, GpsOff), PtrEntry(cIFDGPS, WrapOff),
          PtrTo(cIFDINTEROP, InteropOff)}
PoolExif == {AltRefEntry, PtrTo(cIFDINTEROP, InteropOff)}
PoolGps == {AltRefEntry}
PoolInterop == {AltRefEntry}

\* What is wrong with a generated block: nothing, a signature other than
\* 42, a block cut to 9 bytes, a block cut after the first byte of the
\* Interop slot.  Sound
\* blocks come in both byte orders, defective ones are little-endian.
Defects == {"none", "signature", "cut9", "cutTail"}
Shapes == {<<o, "none">> : o \in Orders} \cup {<<"II", d>> : d \in Defects}

BuildBlock(order, defect, e0, ee, eg, ei) ==
    LET full == HeaderBytes(order, IF defect = "signature" THEN 43 ELSE 42)
                    \o IfdBytes(order, e0, Ifd0Size) \o IfdBytes(order, ee, SubSize)
                    \o IfdBytes(order, eg, SubSize) \o IfdBytes(order, ei, SubSize)
    IN IF defect = "cut9" THEN SubSeq(full, 1, 9)
       ELSE IF defect = "cutTail" THEN SubSeq(full, 1, 10 + InteropOff + 1)
       ELSE full

Blocks ==
    {BuildBlock(sh[1], sh[2], e0, ee, eg, ei) :
        sh \in Shapes, e0 \in SeqsUpTo(Pool0, MaxEntries),
        ee \in SeqsUpTo(PoolExif, MaxSubEntries), eg \in SeqsUpTo(PoolGps, MaxSubEntries),
        ei \in SeqsUpTo(PoolInterop, MaxSubEntries)}

TagIDs2Find == {ExifTagOrientation, ExifGpsTagGPSAltitudeRef, 2457, cIFDGPS}

\* ------------------------------------------------ blocks with one value
\* A block that holds one value entry (tag Orientation) of a chosen raw type
\* field and count, in IFD0 or in an EXIF sub-IFD that IFD0 points to, then a
\* data area.  The entry is laid out as the format prescribes: the value
\* left-aligned in the 4-byte slot when it fits, otherwise in the data area
\* with the slot holding its offset from the owning IFD.  An entry of a type
\* outside the 12 known ones has its slot point to the data area.
OneIfdSize == 2 + 12 + 4
ValueExifOff == Ifd0Off + OneIfdSize
ValueDataOff == ValueExifOff + OneIfdSize
ValueDataLen == 8 * MaxCount + 4
OtherID == <<104, 116, 116, 112, 58, 47>>    \* "http:/", an XMP APP1 block

RawTypes == 0..13 \cup {Or16(cARRAY, cUSHORT)}
IsRational(type) == type \in {cURATIONAL, cSRATIONAL}
UnitWidth(type) ==
    IF IsRational(type) THEN 4
    ELSE IF type \in 1..12 THEN getExifTagFieldSize(type)
    ELSE IF type = Or16(cARRAY, cUSHORT) THEN 2
    ELSE 1
UnitsPer(type) == IF IsRational(type) THEN 2 ELSE 1
ByteWidth(type) == UnitWidth(type) * UnitsPer(type)

\* The k-th unit (array element, numerator or denominator) of a value, most
\* significant byte first: small numbers, numbers with the top bit set,
\* zeros, or a zero in every second unit (a zero denominator).
Patterns == {"low", "high", "zeros", "lowzero", "highzero"}
\* What the slot of a value of more than 4 bytes holds.  "header": the offset
\* of the value from the TIFF header base, as the format comment says
\* (basic.go 112).  "ifd": its offset from the IFD that holds the entry.
\* "wrap": an offset that added to the base of that IFD gives 2^32.
Bases == {"header", "ifd", "wrap"}
UnitBytes(pat, k, uw) ==
    LET low == [j \in 1..uw |-> IF j = uw THEN k ELSE 0]
        high == [j \in 1..uw |-> IF j = 1 THEN 128 + k ELSE IF j = uw THEN k ELSE 0]
    IN CASE pat = "low" -> low
         [] pat = "high" -> high
         [] pat = "zeros" -> Zeros(uw)
         [] pat = "lowzero" -> IF k % 2 = 1 THEN low ELSE Zeros(uw)
         [] OTHER -> IF k % 2 = 1 THEN high ELSE Zeros(uw)

Logical(type, count, pat, base) == [type |-> type, count |-> count, pat |-> pat, base |-> base]
Logicals ==
    {Logical(t, c, p, b) : t \in RawTypes, c \in 0..MaxCount, p \in Patterns, b \in Bases}

\* The bytes of the value in the byte order of the block.
ValueBytes(order, l) ==
    LET uw == UnitWidth(l.type) IN
    [q \in 1..(l.count * ByteWidth(l.type)) |->
        LET unit == UnitBytes(l.pat, ((q - 1) \div uw) + 1, uw)
            j == ((q - 1) % uw) + 1
        IN IF order = "II" THEN unit[uw + 1 - j] ELSE unit[j]]

IsInline(l) == l.type \in 1..12 /\ ByteWidth(l.type) * l.count <= 4
Fill(n) == [k \in 1..n |-> 100 + k]
ValueSlot(order, l, ifdOff) ==
    IF IsInline(l) THEN ValueBytes(order, l) \o Zeros(4 - Len(ValueBytes(order, l)))
    ELSE IF l.base = "wrap" THEN Bytes32(order, <<W - 1, W - (10 + ifdOff)>>)
    ELSE IF l.base = "ifd" THEN Bytes32(order, U32(ValueDataOff - ifdOff))
    ELSE Bytes32(order, U32(ValueDataOff))
ValueData(order, l) ==
    IF IsInline(l) THEN Fill(ValueDataLen)
    ELSE ValueBytes(order, l) \o Fill(ValueDataLen - Len(ValueBytes(order, l)))
ValueIfd(order, l, ifdOff) ==
    Bytes16(order, 1) \o Bytes16(order, ExifTagOrientation) \o Bytes16(order, l.type)
        \o Bytes32(order, U32(l.count)) \o ValueSlot(order, l, ifdOff) \o Zeros(4)

Wheres == {"IFD0", "EXIF"}
BuildValueBlock(order, id, l, where) ==
    LET h == HeaderBytes(order, 42) IN
    <<255, 225>> \o Bytes16("MM", 10 + ValueDataOff + ValueDataLen - 2) \o id
        \o SubSeq(h, 11, Len(h))
        \o (IF where = "IFD0" THEN ValueIfd(order, l, Ifd0Off)
            ELSE IfdBytes(order, <<PtrTo(cIFDEXIF, ValueExifOff)>>, OneIfdSize))
        \o (IF where = "EXIF" THEN ValueIfd(order, l, ValueExifOff)
            ELSE IfdBytes(order, <<>>, OneIfdSize))
        \o ValueData(order, l)

ValueBlocks ==
    {BuildValueBlock(o, id, l, wh) :
        o \in Orders, id \in {ExifID, OtherID}, l \in Logicals, wh \in Wheres}

\* -------------------------------------------- blocks for repeated lookups
PoolAgain == {OrientEntry, PtrTo(cIFDEXIF, ExifOff), PtrTo(cIFDGPS, GpsOff)}
BlocksAgain ==
    {BuildBlock("II", "none", e0, ee, <<AltRefEntry>>, <<>>) :
        e0 \in SeqsUpTo(PoolAgain, MaxEntries), ee \in SeqsUpTo({AltRefEntry}, MaxSubEntries)}
TagIDsAgain == {ExifTagOrientation, ExifGpsTagGPSAltitudeRef, 2457}

\* ------------------------------------ blocks with one tag in several IFDs
\* Orientation entries with different values in IFD0 and in the sub-IFDs, one
\* of a type that does not decode, and IFD0 with or without a link to a
\* next IFD (IFD1), for which the third IFD slot is used.
Orient2Entry == [OrientEntry EXCEPT !.val = OrientEntry.val + 1]
Orient3Entry == [OrientEntry EXCEPT !.val = OrientEntry.val + 2]
UndefEntry == [OrientEntry EXCEPT !.type = cUNDEFINED, !.width = 1]
PoolSame0 == {OrientEntry, UndefEntry, PtrTo(cIFDEXIF, ExifOff), PtrTo(cIFDGPS, GpsOff)}
PoolSameExif == {Orient2Entry, UndefEntry, PtrTo(cIFDINTEROP, InteropOff)}
PoolSameThird == {Orient3Entry}
Links == {0, GpsOff}
BuildLinkedBlock(e0, ee, eg, link) ==
    LET b == BuildBlock("II", "none", e0, ee, eg, <<Orient2Entry>>)
        at == 10 + Ifd0Off + 2 + 12 * Len(e0)
    IN SubSeq(b, 1, at) \o Bytes32("II", U32(link)) \o SubSeq(b, at + 5, Len(b))
BlocksSame ==
    {BuildLinkedBlock(e0, ee, eg, link) :
        e0 \in SeqsUpTo(PoolSame0, MaxEntries), ee \in SeqsUpTo(PoolSameExif, MaxSubEntries),
        eg \in SeqsUpTo(PoolSameThird, MaxSubEntries), link \in Links}
TagIDsSame == {ExifTagOrientation, cIFDEXIF, 2457}

\* ----------------------------------------------------------------- state
\* block, tagID2Find: the inputs of the lookup.  pc: where tEXIFAPP.ReadValue
\* stands.  endian, ifdQueue, ifdItem, numberOfTags, i: its locals.  ret: what
\* it returned.  History: scanned lists the IFDs popped, pushed the sub-IFDs
\* pushed (with the kind of the IFD that held the pointer entry and the
\* number of IFDs popped before the push), seen the entries read (with the
\* position in scanned of the IFD they were read from); the three are kept
\* per lookup.  returned lists the lookups that returned before the current
\* one, each with its tag ID, its result and the block as it was left.
\* other: the locals of a second lookup on the same block while it is not
\* the one that runs (empty when there is none).  info: the call of
\* GetBasicInfo, its position, the BasicInfo it fills and the lookups made.
VARIABLES block, tagID2Find, pc, endian, ifdQueue, ifdItem, numberOfTags, i, ret,
          scanned, pushed, seen, returned, other, info
vars == <<block, tagID2Find, pc, endian, ifdQueue, ifdItem, numberOfTags, i, ret,
          scanned, pushed, seen, returned, other, info>>

ifdOffsetItem(offset, ifdType) == [offset |-> offset, ifdType |-> ifdType]
tiffOffset == U32(10)

InitWalk ==
    /\ pc = "start"
    /\ endian = "unset"
    /\ ifdQueue = <<>>
    /\ ifdItem = ifdOffsetItem(U32(0), cIFDZERO)
    /\ numberOfTags = 0
    /\ i = 0
    /\ ret = Ret(Val("unset", 0), "unset")
    /\ scanned = <<>>
    /\ pushed = <<>>
    /\ seen = <<>>
    /\ returned = <<>>

\* The zero BasicInfo (app/imgmeta.go 12-18, 21) with no call under way.
BasicInfo ==
    [Width |-> Val("nil", 0), Height |-> U32(0), Title |-> "", Descr |-> "", Keywords |-> <<>>]
NotCalled == [variant |-> "none", pc |-> "none", info |-> BasicInfo, calls |-> <<>>]

InitLocals == InitWalk /\ other = <<>> /\ info = NotCalled

Init == block \in Blocks /\ tagID2Find \in TagIDs2Find /\ InitLocals
\* a lookup of the value entry, or of an absent tag, in a block with one value
InitValue == block \in ValueBlocks /\ tagID2Find \in {ExifTagOrientation, 2457} /\ InitLocals
\* a lookup in a block that holds one tag in several IFDs
InitSame == block \in BlocksSame /\ tagID2Find \in TagIDsSame /\ InitLocals
\* the first of several lookups on one block
InitAgain == block \in BlocksAgain /\ tagID2Find \in TagIDsAgain /\ InitLocals

\* basic.go 170-175: resolve the header and seed the work list with IFD0.
Start ==
    /\ pc = "start"
    /\ LET off == TIFFOffsetToIFD0(block)
           e == TIFFByteOrder(block)
       IN IF off.ok /\ e.ok
          THEN /\ ifdQueue' = <<ifdOffsetItem(Add32(tiffOffset, off.v), cIFDZERO)>>
               /\ endian' = e.v
               /\ pc' = "loop"
          ELSE /\ pc' = "panic"
               /\ UNCHANGED <<ifdQueue, endian>>
    /\ UNCHANGED <<block, tagID2Find, ifdItem, numberOfTags, i, ret, scanned, pushed, seen,
                   returned, other, info>>

\* A variant of Pop that takes the oldest pending IFD.
PopOldest ==
    /\ pc = "loop"
    /\ Len(ifdQueue) > 0
    /\ LET item == Head(ifdQueue)
           n == NumberOfTags(tExifIFD(item.offset, block, endian))
       IN /\ ifdItem' = item
          /\ ifdQueue' = Tail(ifdQueue)
          /\ scanned' = Append(scanned, item)
          /\ IF n.ok
             THEN numberOfTags' = n.v /\ i' = 0 /\ pc' = "scan"
             ELSE pc' = "panic" /\ UNCHANGED <<numberOfTags, i>>
    /\ UNCHANGED <<block, tagID2Find, endian, ret, pushed, seen, returned, other, info>>

\* A variant of Pop that leaves the entry index where the last scan left it.
PopKeepingIndex ==
    /\ pc = "loop"
    /\ Len(ifdQueue) > 0
    /\ LET item == ifdQueue[Len(ifdQueue)]
           n == NumberOfTags(tExifIFD(item.offset, block, endian))
       IN /\ ifdItem' = item
          /\ ifdQueue' = SubSeq(ifdQueue, 1, Len(ifdQueue) - 1)
          /\ scanned' = Append(scanned, item)
          /\ IF n.ok
             THEN numberOfTags' = n.v /\ i' = i /\ pc' = "scan"
             ELSE pc' = "panic" /\ UNCHANGED <<numberOfTags, i>>
    /\ UNCHANGED <<block, tagID2Find, endian, ret, pushed, seen, returned, other, info>>

\* basic.go 177-186: pop the most recently pushed IFD, read its entry count
\* and start its entry loop at index 0.
Pop ==
    /\ pc = "loop"
    /\ Len(ifdQueue) > 0
    /\ LET item == ifdQueue[Len(ifdQueue)]
           n == NumberOfTags(tExifIFD(item.offset, block, endian))
       IN /\ ifdItem' = item
          /\ ifdQueue' = SubSeq(ifdQueue, 1, Len(ifdQueue) - 1)
          /\ scanned' = Append(scanned, item)
          /\ IF n.ok
             THEN numberOfTags' = n.v /\ i' = 0 /\ pc' = "scan"
             ELSE pc' = "panic" /\ UNCHANGED <<numberOfTags, i>>
    /\ UNCHANGED <<block, tagID2Find, endian, ret, pushed, seen, returned, other, info>>

\* Variants of PushFor with one kind test lost.
PushForExifAnywhere(item, tagID, tag) ==
    IF tagID = cIFDEXIF
    THEN <<ifdOffsetItem(Add32(tiffOffset, valueOrOffset(tag)), cIFDEXIF)>>
    ELSE IF item.ifdType = cIFDZERO /\ tagID = cIFDGPS
    THEN <<ifdOffsetItem(Add32(tiffOffset, valueOrOffset(tag)), cIFDGPS)>>
    ELSE IF item.ifdType = cIFDEXIF /\ tagID = cIFDINTEROP
    THEN <<ifdOffsetItem(Add32(tiffOffset, valueOrOffset(tag)), cIFDINTEROP)>>
    ELSE <<>>

PushForInteropAnywhere(item, tagID, tag) ==
    IF item.ifdType = cIFDZERO /\ tagID = cIFDEXIF
    THEN <<ifdOffsetItem(Add32(tiffOffset, valueOrOffset(tag)), cIFDEXIF)>>
    ELSE IF item.ifdType = cIFDZERO /\ tagID = cIFDGPS
    THEN <<ifdOffsetItem(Add32(tiffOffset, valueOrOffset(tag)), cIFDGPS)>>
    ELSE IF tagID = cIFDINTEROP
    THEN <<ifdOffsetItem(Add32(tiffOffset, valueOrOffset(tag)), cIFDINTEROP)>>
    ELSE <<>>

PushForGpsInExif(item, tagID, tag) ==
    IF item.ifdType = cIFDZERO /\ tagID = cIFDEXIF
    THEN <<ifdOffsetItem(Add32(tiffOffset, valueOrOffset(tag)), cIFDEXIF)>>
    ELSE IF item.ifdType \in {cIFDZERO, cIFDEXIF} /\ tagID = cIFDGPS
    THEN <<ifdOffsetItem(Add32(tiffOffset, valueOrOffset(tag)), cIFDGPS)>>
    ELSE IF item.ifdType = cIFDEXIF /\ tagID = cIFDINTEROP
    THEN <<ifdOffsetItem(Add32(tiffOffset, valueOrOffset(tag)), cIFDINTEROP)>>
    ELSE <<>>

\* A variant of PushFor that places a sub-IFD relative to the IFD that holds
\* the pointer entry.
PushForFromIfd(item, tagID, tag) ==
    IF item.ifdType = cIFDZERO /\ tagID = cIFDEXIF
    THEN <<ifdOffsetItem(Add32(item.offset, valueOrOffset(tag)), cIFDEXIF)>>
    ELSE IF item.ifdType = cIFDZERO /\ tagID = cIFDGPS
    THEN <<ifdOffsetItem(Add32(item.offset, valueOrOffset(tag)), cIFDGPS)>>
    ELSE IF item.ifdType = cIFDEXIF /\ tagID = cIFDINTEROP
    THEN <<ifdOffsetItem(Add32(item.offset, valueOrOffset(tag)), cIFDINTEROP)>>
    ELSE <<>>

\* The sub-IFD an entry makes the walker push, if any (basic.go 194-204).
PushFor(item, tagID, tag) ==
    IF item.ifdType = cIFDZERO /\ tagID = cIFDEXIF
    THEN <<ifdOffsetItem(Add32(tiffOffset, valueOrOffset(tag)), cIFDEXIF)>>
    ELSE IF item.ifdType = cIFDZERO /\ tagID = cIFDGPS
    THEN <<ifdOffsetItem(Add32(tiffOffset, valueOrOffset(tag)), cIFDGPS)>>
    ELSE IF item.ifdType = cIFDEXIF /\ tagID = cIFDINTEROP
    THEN <<ifdOffsetItem(Add32(tiffOffset, valueOrOffset(tag)), cIFDINTEROP)>>
    ELSE <<>>

\* A variant of EntryStep that takes a match only in IFD0.
EntryStepIfd0Only(item, tagID, want, tag) ==
    IF tagID = want /\ item.ifdType = cIFDZERO THEN [return |-> TRUE, push |-> <<>>]
    ELSE [return |-> FALSE, push |-> PushFor(item, tagID, tag)]

\* A variant of EntryStep that passes over a matching entry of a type that
\* does not decode.
EntryStepSkippingUndefined(item, tagID, want, tag) ==
    IF tagID = want /\ TypeID(tag) # cUNDEFINED THEN [return |-> TRUE, push |-> <<>>]
    ELSE [return |-> FALSE, push |-> PushFor(item, tagID, tag)]

\* A variant of EntryStep that looks at the pointer tags before the match.
EntryStepPointerFirst(item, tagID, want, tag) ==
    IF PushFor(item, tagID, tag) # <<>>
    THEN [return |-> FALSE, push |-> PushFor(item, tagID, tag)]
    ELSE [return |-> tagID = want, push |-> <<>>]

\* What one entry makes the walker do (basic.go 190-204): return on a
\* match, otherwise push the sub-IFD of a pointer entry and go on.
EntryStep(item, tagID, want, tag) ==
    IF tagID = want THEN [return |-> TRUE, push |-> <<>>]
    ELSE [return |-> FALSE, push |-> PushFor(item, tagID, tag)]

\* basic.go 186-205: one iteration of the entry loop.
Scan ==
    /\ pc = "scan"
    /\ i < numberOfTags
    /\ LET ifd == tExifIFD(ifdItem.offset, block, endian)
           t == GetTag(ifd, i)
       IN IF ~t.ok
          THEN /\ pc' = "panic"
               /\ UNCHANGED <<ifdQueue, i, ret, pushed, seen>>
          ELSE LET tagID == TagID(t.v)
                   step == EntryStep(ifdItem, tagID, tagID2Find, t.v)
                   here == [offset |-> ifdItem.offset, ifdType |-> ifdItem.ifdType,
                            scan |-> Len(scanned), index |-> i, tagID |-> tagID]
               IN /\ seen' = Append(seen, here)
                  /\ IF step.return
                     THEN LET r == ReadValue(ifd, t.v) IN
                          /\ IF r.ok THEN ret' = r.v /\ pc' = "done"
                             ELSE pc' = "panic" /\ UNCHANGED ret
                          /\ UNCHANGED <<ifdQueue, i, pushed>>
                     ELSE /\ ifdQueue' = ifdQueue \o step.push
                          /\ pushed' = pushed \o [k \in 1..Len(step.push) |->
                                           [item |-> step.push[k], from |-> ifdItem.ifdType,
                                            tagID |-> tagID, at |-> Len(scanned)]]
                          /\ i' = i + 1
                          /\ UNCHANGED <<pc, ret>>
    /\ UNCHANGED <<block, tagID2Find, endian, ifdItem, numberOfTags, scanned, returned, other, info>>

\* basic.go 186: the entry loop ends, back to the work list.
NextIFD ==
    /\ pc = "scan"
    /\ i >= numberOfTags
    /\ pc' = "loop"
    /\ UNCHANGED <<block, tagID2Find, endian, ifdQueue, ifdItem, numberOfTags, i, ret,
                   scanned, pushed, seen, returned, other, info>>

\* basic.go 177, 208: the work list is empty.
Exhausted ==
    /\ pc = "loop"
    /\ Len(ifdQueue) = 0
    /\ ret' = Ret(Val("int", 1), "nil")
    /\ pc' = "done"
    /\ UNCHANGED <<block, tagID2Find, endian, ifdQueue, ifdItem, numberOfTags, i,
                   scanned, pushed, seen, returned, other, info>>

Next == Start \/ Pop \/ Scan \/ NextIFD \/ Exhausted

Spec == Init /\ [][Next]_vars

\* The lookups in blocks that hold one tag in several IFDs.
SpecSame == InitSame /\ [][Next]_vars

\* The lookups of value entries of every type.
SpecValue == InitValue /\ [][Next]_vars

\* The caller looks up another tag ID in the same block after a lookup has
\* returned.  The locals of tEXIFAPP.ReadValue are not carried over by Go;
\* here they keep their last values and it is for Start and Pop to set them
\* (basic.go 170-175, 179-186).
Call ==
    /\ pc = "done"
    /\ Len(returned) + 1 < MaxLookups
    /\ returned' = Append(returned, [tagID |-> tagID2Find, ret |-> ret, block |-> block])
    /\ tagID2Find' \in TagIDsAgain
    /\ pc' = "start"
    /\ scanned' = <<>>
    /\ pushed' = <<>>
    /\ seen' = <<>>
    /\ UNCHANGED <<block, endian, ifdQueue, ifdItem, numberOfTags, i, ret, other, info>>

NextAgain == Next \/ Call
SpecAgain == InitAgain /\ [][NextAgain]_vars

\* ------------------------------------------- two lookups on one block
\* The locals of a lookup that has not started.
Fresh(id, tagID) ==
    [id |-> id, tagID2Find |-> tagID, pc |-> "start", endian |-> "unset", ifdQueue |-> <<>>,
     ifdItem |-> ifdOffsetItem(U32(0), cIFDZERO), numberOfTags |-> 0, i |-> 0,
     ret |-> Ret(Val("unset", 0), "unset"), scanned |-> <<>>, pushed |-> <<>>, seen |-> <<>>]

InitTwo ==
    /\ block \in BlocksAgain /\ tagID2Find \in TagIDsAgain
    /\ InitWalk
    /\ other \in {<<Fresh(2, t)>> : t \in TagIDsAgain}
    /\ info = NotCalled

\* A variant of Switch in which the two lookups use one work list.
SwitchSharingWorkList ==
    /\ other # <<>>
    /\ pc # "panic"
    /\ other' = <<[id |-> 3 - other[1].id, tagID2Find |-> tagID2Find, pc |-> pc,
                   endian |-> endian, ifdQueue |-> ifdQueue, ifdItem |-> ifdItem,
                   numberOfTags |-> numberOfTags, i |-> i, ret |-> ret,
                   scanned |-> scanned, pushed |-> pushed, seen |-> seen]>>
    /\ tagID2Find' = other[1].tagID2Find
    /\ pc' = other[1].pc
    /\ endian' = other[1].endian
    /\ ifdQueue' = ifdQueue
    /\ ifdItem' = other[1].ifdItem
    /\ numberOfTags' = other[1].numberOfTags
    /\ i' = other[1].i
    /\ ret' = other[1].ret
    /\ scanned' = other[1].scanned
    /\ pushed' = other[1].pushed
    /\ seen' = other[1].seen
    /\ UNCHANGED <<block, returned, info>>

\* The lookup that runs is suspended and the other one goes on.  Each call
\* of tEXIFAPP.ReadValue has its own tagID2Find, endian, ifdQueue, ifdItem,
\* numberOfTags and i (basic.go 167-186); the block is the one thing the
\* two calls share.  A panic ends the whole program.
Switch ==
    /\ other # <<>>
    /\ pc # "panic"
    /\ other' = <<[id |-> 3 - other[1].id, tagID2Find |-> tagID2Find, pc |-> pc,
                   endian |-> endian, ifdQueue |-> ifdQueue, ifdItem |-> ifdItem,
                   numberOfTags |-> numberOfTags, i |-> i, ret |-> ret,
                   scanned |-> scanned, pushed |-> pushed, seen |-> seen]>>
    /\ tagID2Find' = other[1].tagID2Find
    /\ pc' = other[1].pc
    /\ endian' = other[1].endian
    /\ ifdQueue' = other[1].ifdQueue
    /\ ifdItem' = other[1].ifdItem
    /\ numberOfTags' = other[1].numberOfTags
    /\ i' = other[1].i
    /\ ret' = other[1].ret
    /\ scanned' = other[1].scanned
    /\ pushed' = other[1].pushed
    /\ seen' = other[1].seen
    /\ UNCHANGED <<block, returned, info>>

NextTwo == Next \/ Switch
SpecTwo == InitTwo /\ [][NextTwo]_vars

\* ------------------------------------------------------- GetBasicInfo
\* The two copies of GetBasicInfo: app/imgmeta.go 21-49 and imgmeta/basic.go
\* 19-47.
Variants == {"app", "imgmeta"}
\* What a call of Image.ReadTagValue can give back: its results are
\* (interface{}, error), so an error, or a value of any dynamic type.
\* "int" is what tEXIFAPP.ReadValue gives for a tag it does not find
\* (basic.go 208).
OutcomeKinds == {"error", "uint32", "uint16", "string", "int"}
Outcome(kind) ==
    CASE kind = "error" -> Ret(Val("int", 0), "error")
      [] kind = "uint32" -> Ret(Val("uint32", U32(480)), "nil")
      [] kind = "uint16" -> Ret(Val("uint16", 480), "nil")
      [] kind = "int" -> Ret(Val("int", 1), "nil")
      [] OTHER -> Ret(Val("string", "text"), "nil")
ReadTagValue(app, tag, r) == [app |-> app, tag |-> tag, ret |-> r]

InitBasic ==
    /\ block = <<>> /\ tagID2Find = 0
    /\ InitWalk
    /\ other = <<>>
    /\ info \in {[variant |-> v, pc |-> "width", info |-> BasicInfo, calls |-> <<>>] :
                    v \in Variants}

\* app/imgmeta.go 22-27: info.Width = width, or the error is logged.
LookupWidth ==
    /\ info.pc = "width"
    /\ \E kind \in OutcomeKinds : LET r == Outcome(kind) IN
          info' = [info EXCEPT
                     !.calls = Append(@, ReadTagValue("SOF0", "SOF0ImageWidth", r)),
                     !.info.Width = IF r.err = "nil" THEN r.val ELSE @,
                     !.pc = "height"]
    /\ UNCHANGED <<block, tagID2Find, pc, endian, ifdQueue, ifdItem, numberOfTags, i, ret,
                   scanned, pushed, seen, returned, other>>

\* app/imgmeta.go 28-33: info.Height = height.(uint32), a type assertion
\* that panics on a value of another dynamic type; or the error is logged.
LookupHeight ==
    /\ info.pc = "height"
    /\ \E kind \in OutcomeKinds : LET r == Outcome(kind) IN
          info' = [info EXCEPT
                     !.calls = Append(@, ReadTagValue("SOF0", "SOF0ImageHeight", r)),
                     !.info.Height = IF r.err = "nil" /\ r.val.t = "uint32" THEN r.val.v ELSE @,
                     !.pc = IF r.err = "nil" /\ r.val.t # "uint32" THEN "panic" ELSE "keyword"]
    /\ UNCHANGED <<block, tagID2Find, pc, endian, ifdQueue, ifdItem, numberOfTags, i, ret,
                   scanned, pushed, seen, returned, other>>

\* app/imgmeta.go 34-37: info.Keywords = []string{keyword.(string)}.
LookupKeywords ==
    /\ info.pc = "keyword"
    /\ \E kind \in OutcomeKinds : LET r == Outcome(kind) IN
          info' = [info EXCEPT
                     !.calls = Append(@, ReadTagValue("IPTC", "IptcTagApplication2Keywords", r)),
                     !.info.Keywords = IF r.err = "nil" /\ r.val.t = "string"
                                       THEN <<r.val.v>> ELSE @,
                     !.pc = IF r.err = "nil" /\ r.val.t # "string" THEN "panic" ELSE "datetime"]
    /\ UNCHANGED <<block, tagID2Find, pc, endian, ifdQueue, ifdItem, numberOfTags, i, ret,
                   scanned, pushed, seen, returned, other>>

\* app/imgmeta.go 38-41: the value is logged; basic.go 36-39, 46 returns
\* after this lookup.
LookupDateTime ==
    /\ info.pc = "datetime"
    /\ \E kind \in OutcomeKinds : LET r == Outcome(kind) IN
          info' = [info EXCEPT
                     !.calls = Append(@, ReadTagValue("EXIF", "ExifTagDateTimeOriginal", r)),
                     !.pc = IF info.variant = "app" THEN "title" ELSE "return"]
    /\ UNCHANGED <<block, tagID2Find, pc, endian, ifdQueue, ifdItem, numberOfTags, i, ret,
                   scanned, pushed, seen, returned, other>>

\* app/imgmeta.go 43-46: info.Title = imgTitle.(string).
LookupCaption ==
    /\ info.pc = "title"
    /\ \E kind \in OutcomeKinds : LET r == Outcome(kind) IN
          info' = [info EXCEPT
                     !.calls = Append(@, ReadTagValue("IPTC", "IptcTagApplication2Caption", r)),
                     !.info.Title = IF r.err = "nil" /\ r.val.t = "string" THEN r.val.v ELSE @,
                     !.pc = IF r.err = "nil" /\ r.val.t # "string" THEN "panic" ELSE "return"]
    /\ UNCHANGED <<block, tagID2Find, pc, endian, ifdQueue, ifdItem, numberOfTags, i, ret,
                   scanned, pushed, seen, returned, other>>

\* app/imgmeta.go 48: return.
Return ==
    /\ info.pc = "return"
    /\ info' = [info EXCEPT !.pc = "returned"]
    /\ UNCHANGED <<block, tagID2Find, pc, endian, ifdQueue, ifdItem, numberOfTags, i, ret,
                   scanned, pushed, seen, returned, other>>

NextBasic ==
    LookupWidth \/ LookupHeight \/ LookupKeywords \/ LookupDateTime \/ LookupCaption \/ Return
SpecBasic == InitBasic /\ [][NextBasic]_vars

\* ---------------------------------------------- direct use of an IFD
\* basic.go 221-224: GetTag called on IFD0 with any index.
GetTagCall ==
    /\ pc = "start"
    /\ \E index \in 0..(MaxEntries + 1) :
          LET ifd == tExifIFD(Add32(tiffOffset, TIFFOffsetToIFD0(block).v), block,
                              TIFFByteOrder(block).v)
              t == GetTag(ifd, index)
          IN /\ i' = index
             /\ endian' = ifd.endian
             /\ ifdItem' = ifdOffsetItem(ifd.offset, cIFDZERO)
             /\ IF t.ok THEN pc' = "got" /\ ret' = Ret(Val("tExifTag", t.v), "nil")
                ELSE pc' = "panic" /\ UNCHANGED ret
    /\ UNCHANGED <<block, tagID2Find, ifdQueue, numberOfTags, scanned, pushed, seen,
                   returned, other, info>>

\* basic.go 226-227: FindTag called on IFD0.
FindTagStart ==
    /\ pc = "start"
    /\ LET ifd == tExifIFD(Add32(tiffOffset, TIFFOffsetToIFD0(block).v), block,
                           TIFFByteOrder(block).v)
           n == NumberOfTags(ifd)
       IN /\ endian' = ifd.endian
          /\ ifdItem' = ifdOffsetItem(ifd.offset, cIFDZERO)
          /\ IF n.ok THEN numberOfTags' = n.v /\ i' = 0 /\ pc' = "find"
             ELSE pc' = "panic" /\ UNCHANGED <<numberOfTags, i>>
    /\ UNCHANGED <<block, tagID2Find, ifdQueue, ret, scanned, pushed, seen, returned,
                   other, info>>

\* basic.go 228-233: one iteration of the loop of FindTag.
FindTagStep ==
    /\ pc = "find"
    /\ i < numberOfTags
    /\ LET ifd == tExifIFD(ifdItem.offset, block, endian)
           t == GetTag(ifd, i)
       IN IF ~t.ok
          THEN pc' = "panic" /\ UNCHANGED <<i, ret, seen>>
          ELSE /\ seen' = Append(seen, [offset |-> ifdItem.offset, ifdType |-> ifdItem.ifdType,
                                        scan |-> 1, index |-> i, tagID |-> TagID(t.v)])
               /\ IF TagID(t.v) = tagID2Find
                  THEN /\ ret' = Ret(Val("tExifTag, bool", [tag |-> t.v, found |-> TRUE]), "nil")
                       /\ pc' = "found"
                       /\ UNCHANGED i
                  ELSE i' = i + 1 /\ UNCHANGED <<pc, ret>>
    /\ UNCHANGED <<block, tagID2Find, endian, ifdQueue, ifdItem, numberOfTags, scanned,
                   pushed, returned, other, info>>

\* basic.go 228, 234: the loop of FindTag ends without a match.
FindTagEnd ==
    /\ pc = "find"
    /\ i >= numberOfTags
    /\ ret' = Ret(Val("tExifTag, bool",
                      [tag |-> [endian |-> endian, offset |-> 0, appblock |-> <<>>],
                       found |-> FALSE]), "nil")
    /\ pc' = "found"
    /\ UNCHANGED <<block, tagID2Find, endian, ifdQueue, ifdItem, numberOfTags, i, scanned,
                   pushed, seen, returned, other, info>>

NextIfd == GetTagCall \/ FindTagStart \/ FindTagStep \/ FindTagEnd
SpecIfd == InitSame /\ [][NextIfd]_vars

\* The lookup is one sequential call: a step is taken whenever one is possible.
FairSpec == Spec /\ WF_vars(Next)

TypeOK ==
    /\ pc \in {"start", "loop", "scan", "done", "panic", "got", "find", "found"}
    /\ Len(returned) < MaxLookups

\* ================================================================ claims
Running == pc \notin {"done", "panic"}
NoMatchSeen == \A k \in DOMAIN seen : seen[k].tagID # tagID2Find
Kinds(q) == [k \in DOMAIN q |-> q[k].ifdType]

\* Tag IDs of the entries of the IFD at TIFF offset off, as the block holds them.
IfdTagIDs(b, off) ==
    LET ifd == tExifIFD(U32(10 + off), b, TIFFByteOrder(b).v)
        n == NumberOfTags(ifd)
    IN IF ~n.ok THEN {}
       ELSE {TagID(GetTag(ifd, k).v) : k \in {j \in 0..(n.v - 1) : GetTag(ifd, j).ok}}

\* C1: a lookup that empties the work list without a match returns an
\* error (NotFound), never a successful value.
C1_AbsentTagIsNotFound == (pc = "done" /\ NoMatchSeen) => ret.err # "nil"

\* C2: a read whose byte range exceeds the block ends the lookup with an
\* error result; no block makes the lookup panic.
C2_OutOfRangeIsAnError == pc # "panic"

\* C3: the walk terminates for every block and tag ID.  Every step of the
\* lookup strictly lowers a measure in a well-founded (lexicographic) order:
\* pending IFD0 items and IFD0 entries left, then EXIF items and entries left,
\* then GPS/Interop items and entries left; an IFD pushes only IFDs of a
\* lower rank, so no infinite walk exists.
Rank(kind) == IF kind = cIFDZERO THEN 2 ELSE IF kind = cIFDEXIF THEN 1 ELSE 0
PendingOf(r) == Cardinality({k \in DOMAIN ifdQueue : Rank(ifdQueue[k].ifdType) = r})
LeftOf(r) ==
    IF pc = "scan" /\ Rank(ifdItem.ifdType) = r THEN numberOfTags - i + 1 ELSE 0
Measure ==
    <<IF pc = "start" THEN 1 ELSE 0, PendingOf(2), LeftOf(2), PendingOf(1), LeftOf(1),
      PendingOf(0), LeftOf(0), IF Running THEN 1 ELSE 0>>
LexLess(a, b) == \E k \in DOMAIN a : a[k] < b[k] /\ \A j \in 1..(k - 1) : a[j] = b[j]
C3_Terminates == [][LexLess(Measure', Measure)]_vars
\* a finished lookup that followed a pointer back to an IFD already scanned
C3_Witness ==
    /\ ~Running
    /\ \E j, k \in DOMAIN scanned : j < k /\ scanned[j].offset = scanned[k].offset

\* C4 as stated: at most three sub-IFDs are pushed and at most four IFDs
\* scanned in one lookup, for any block.
C4_AtMostThreeEdges == Len(pushed) <= 3 /\ Len(scanned) <= 4
\* C4 amended: one sub-IFD is pushed per pointer entry read in the IFD kind
\* that owns it; as long as no IFD read so far holds the same pointer tag
\* twice, at most three sub-IFDs are pushed and at most four IFDs scanned.
IsEdge(e) ==
    \/ e.ifdType = cIFDZERO /\ e.tagID \in {cIFDEXIF, cIFDGPS}
    \/ e.ifdType = cIFDEXIF /\ e.tagID = cIFDINTEROP
NoRepeatedPointer ==
    \A j, k \in DOMAIN seen :
        (IsEdge(seen[j]) /\ seen[j].scan = seen[k].scan /\ seen[j].tagID = seen[k].tagID)
        => j = k
C4_EdgesBounded ==
    /\ Len(pushed) <= Cardinality({k \in DOMAIN seen : IsEdge(seen[k])})
    /\ NoRepeatedPointer => (Len(pushed) <= 3 /\ Len(scanned) <= 4)
C4_Witness ==
    /\ pc = "done" /\ NoRepeatedPointer
    /\ Len(pushed) = 3 /\ Len(scanned) = 4

\* C5: no IFD offset is scanned twice in one lookup (a pointer to an offset
\* already visited is not followed).
C5_NoOffsetScannedTwice ==
    \A j, k \in DOMAIN scanned : j # k => scanned[j].offset # scanned[k].offset

\* C6: first match wins.  Entries are read IFD by IFD in pop order and by
\* index within an IFD; the lookup ends at the first entry read whose tag ID
\* is the requested one, returns that entry's decode result, and reads
\* nothing after it, whatever is still pending.
InTraversalOrder ==
    \A k \in DOMAIN seen :
        /\ seen[k].scan \in DOMAIN scanned
        /\ scanned[seen[k].scan] = ifdOffsetItem(seen[k].offset, seen[k].ifdType)
        /\ IF k > 1 /\ seen[k - 1].scan = seen[k].scan
           THEN seen[k].index = seen[k - 1].index + 1
           ELSE seen[k].index = 0 /\ (k > 1 => seen[k - 1].scan < seen[k].scan)
C6_FirstMatchWins ==
    /\ InTraversalOrder
    /\ \A k \in DOMAIN seen :
        seen[k].tagID = tagID2Find =>
            /\ k = Len(seen)
            /\ ~Running
            /\ seen[k].scan = Len(scanned)
            /\ LET ifd == tExifIFD(seen[k].offset, block, endian)
                   r == ReadValue(ifd, GetTag(ifd, seen[k].index).v)
               IN IF r.ok THEN pc = "done" /\ ret = r.v ELSE pc = "panic"
\* a match returned while another IFD is still pending
C6_Witness == pc = "done" /\ ~NoMatchSeen /\ Len(ifdQueue) > 0 /\ Len(seen) > 1

\* C7: pending IFDs are taken last-in-first-out.  Replaying the pushes (each
\* stamped with the number of IFDs popped before it) against the pops, every
\* IFD popped after IFD0 is the latest pushed one not popped before.
PushedBefore(j) == {k \in DOMAIN pushed : pushed[k].at < j}
Latest(S) == CHOOSE k \in S : \A m \in S : m <= k
RECURSIVE TakenBefore(_)
TakenBefore(j) ==
    IF j <= 2 THEN {}
    ELSE LET T == TakenBefore(j - 1) IN T \cup {Latest(PushedBefore(j - 1) \ T)}
C7_LastInFirstOut ==
    /\ Len(scanned) >= 1 => scanned[1].ifdType = cIFDZERO
    /\ \A j \in 2..Len(scanned) :
        LET open == PushedBefore(j) \ TakenBefore(j)
        IN open # {} /\ scanned[j] = pushed[Latest(open)].item
\* GPS pointer before EXIF pointer in IFD0: EXIF, its Interop, then GPS
C7_Witness ==
    /\ pc = "done"
    /\ Kinds(scanned) = <<cIFDZERO, cIFDEXIF, cIFDINTEROP, cIFDGPS>>
    /\ Kinds([k \in DOMAIN pushed |-> pushed[k].item]) = <<cIFDGPS, cIFDEXIF, cIFDINTEROP>>

\* C8: EXIF and GPS pointer entries push a sub-IFD only when read in IFD0,
\* Interop pointer entries only when read in an EXIF sub-IFD; read in any
\* other kind of IFD they push nothing.
C8_PointersByKind ==
    /\ \A k \in DOMAIN pushed :
        /\ pushed[k].item.ifdType = pushed[k].tagID
        /\ pushed[k].tagID \in {cIFDEXIF, cIFDGPS} => pushed[k].from = cIFDZERO
        /\ pushed[k].tagID = cIFDINTEROP => pushed[k].from = cIFDEXIF
        /\ pushed[k].tagID \in {cIFDEXIF, cIFDGPS, cIFDINTEROP}
    /\ Len(pushed) =
         Cardinality({k \in DOMAIN seen : IsEdge(seen[k]) /\ seen[k].tagID # tagID2Find})
\* pointer entries read in the wrong kind of IFD, next to one that was followed
C8_Witness ==
    /\ pc = "done" /\ Len(pushed) > 0
    /\ \E k \in DOMAIN seen :
        seen[k].tagID = cIFDINTEROP /\ seen[k].ifdType = cIFDZERO /\ tagID2Find # cIFDINTEROP
    /\ \E k \in DOMAIN seen :
        /\ seen[k].tagID \in {cIFDEXIF, cIFDGPS} /\ seen[k].ifdType # cIFDZERO
        /\ tagID2Find # seen[k].tagID

\* C9: a tag held only by the GPS sub-IFD is found only if IFD0 holds a
\* GPS-pointer entry; without that entry the lookup returns NotFound.
OnlyInGps(b, id) ==
    /\ Len(b) = FullLen
    /\ id \in IfdTagIDs(b, GpsOff)
    /\ id \notin IfdTagIDs(b, Ifd0Off) \cup IfdTagIDs(b, ExifOff) \cup IfdTagIDs(b, InteropOff)
C9_GpsTagNeedsPointer ==
    (pc = "done" /\ OnlyInGps(block, tagID2Find)) =>
        /\ ~NoMatchSeen => cIFDGPS \in IfdTagIDs(block, Ifd0Off)
        /\ cIFDGPS \notin IfdTagIDs(block, Ifd0Off) => ret.err # "nil"

\* C10: a block shorter than the TIFF header region, or whose signature is
\* not 42, fails with MalformedHeader before any IFD is read and without an
\* out-of-bounds access.
HeaderOK(b) == Len(b) >= 18 /\ Uint16(TIFFByteOrder(b).v, b, 12) = 42
C10_MalformedHeaderRejected ==
    (pc # "start" /\ ~HeaderOK(block)) =>
        /\ pc = "done"
        /\ ret.err = "MalformedHeader"
        /\ scanned = <<>>

\* ------------------------------------------------ claims on value decoding
\* The lookup ended at an entry whose tag ID is the requested one.
Matched == ~Running /\ seen # <<>> /\ seen[Len(seen)].tagID = tagID2Find
MatchedIfd == tExifIFD(seen[Len(seen)].offset, block, endian)
MatchedTag == GetTag(MatchedIfd, seen[Len(seen)].index).v
\* the 16-bit type field and the count of an entry as the block holds them
RawType(tag) == Uint16(tag.endian, tag.appblock, tag.offset + 2)
Count(tag) == countOrComponents(tag)

\* C11: a block whose identifier is not "Exif\0\0" makes the lookup fail
\* with an error before the header is resolved; no IFD of it is walked.
C11_IdentifierChecked ==
    LET h == HasID(block, ExifID) IN
    (pc # "start" /\ h.ok /\ ~h.v) => (pc = "done" /\ ret.err # "nil" /\ scanned = <<>>)

\* C12: a big-endian block and the little-endian block that encode the same
\* value entry of one of the 12 types give the same lookup result.
C12_ByteOrderIndependent ==
    (Matched /\ endian = "BigEndian" /\ RawType(MatchedTag) \in 1..12) =>
        \A pat \in Patterns, base \in Bases, id \in {ExifID, OtherID}, wh \in Wheres :
            LET l == Logical(RawType(MatchedTag), Count(MatchedTag)[2], pat, base) IN
            block = BuildValueBlock("MM", id, l, wh) =>
                LET twin == BuildValueBlock("II", id, l, wh)
                    ifd == tExifIFD(seen[Len(seen)].offset, twin, TIFFByteOrder(twin).v)
                    r == ReadValue(ifd, GetTag(ifd, seen[Len(seen)].index).v)
                IN IF r.ok THEN pc = "done" /\ ret = r.v ELSE pc = "panic"

\* C13: every multi-byte read of a lookup uses the byte order resolved from
\* the II/MM marker; in particular the bits of a float32 scalar are the
\* 4-byte slot read in that byte order.
C13_OneByteOrder ==
    (Matched /\ pc = "done" /\ TypeID(MatchedTag) = cFLOAT32) =>
        ret.val.v.bits = Uint32(endian, MatchedTag.appblock, MatchedTag.offset + 8)

\* C14: the count alone decides the dispatch, whatever else the raw type
\* field holds: the entry is decoded on the array path, and a decoded value
\* is a sequence, exactly when count > 1.
OnArrayPath(tag) == Or16(cARRAY, TypeID(tag)) = TypeID(tag)
C14_CountDecidesDispatch ==
    Matched =>
        /\ OnArrayPath(MatchedTag) <=> Lt32(U32(1), Count(MatchedTag))
        /\ (pc = "done" /\ ret.err = "nil") =>
              (ret.val.t = "slice" <=> Lt32(U32(1), Count(MatchedTag)))

\* Element width and kind of the array types, and of the small integer types.
ArrayTypes ==
    {Or16(cARRAY, cUBYTE), Or16(cARRAY, cUSHORT), Or16(cARRAY, cULONG),
     Or16(cARRAY, cSBYTE), Or16(cARRAY, cSSHORT), Or16(cARRAY, cSLONG)}
ElemWidth(typeID) == getExifTagFieldSize(typeID % cARRAY)
ElemKind(typeID) ==
    CASE typeID % cARRAY = cUBYTE -> "uint8"
      [] typeID % cARRAY = cUSHORT -> "uint16"
      [] typeID % cARRAY = cULONG -> "uint32"
      [] typeID % cARRAY = cSBYTE -> "int8"
      [] typeID % cARRAY = cSSHORT -> "int16"
      [] OTHER -> "int32"

\* C15: a value of at most 4 bytes is taken from the 4-byte slot itself: two
\* shorts or up to four bytes decode to the numbers the slot holds.
C15_SmallValuesInline ==
    (Matched /\ RawType(MatchedTag) \in {cUBYTE, cUSHORT, cSBYTE, cSSHORT}
             /\ Lt32(U32(1), Count(MatchedTag))
             /\ Le32(MulK32(Count(MatchedTag), ElemWidth(RawType(MatchedTag))), U32(4))) =>
        /\ pc = "done"
        /\ ret.err = "nil"
        /\ ret.val.v = ArrayOf(MatchedTag, MatchedTag.offset + 8, Count(MatchedTag)[2],
                               ElemWidth(RawType(MatchedTag)), ElemKind(RawType(MatchedTag)))

\* C16: an out-of-line value (array, rational, float64) that was decoded was
\* read at the offset of the IFD that holds the entry plus the stored offset.
ValueAt == Add32(seen[Len(seen)].offset, valueOrOffset(MatchedTag))[2]
FromHeaderAt == Add32(tiffOffset, valueOrOffset(MatchedTag))[2]
C16_OwningIfdBase ==
    (Matched /\ pc = "done" /\ ret.err = "nil") =>
        LET typeID == TypeID(MatchedTag) IN
        /\ typeID \in ArrayTypes =>
              ret.val.v = ArrayOf(MatchedIfd, ValueAt, Count(MatchedTag)[2],
                                  ElemWidth(typeID), ElemKind(typeID))
        /\ typeID = cFLOAT64 => ret.val.v.bits = Uint64(endian, block, ValueAt)
        /\ typeID = cURATIONAL =>
              ret.val = divideUint32(Uint32(endian, block, ValueAt),
                                     Uint32(endian, block, ValueAt + 4))
        /\ typeID = cSRATIONAL =>
              ret.val = divideInt32(AsInt32(Uint32(endian, block, ValueAt)),
                                    AsInt32(Uint32(endian, block, ValueAt + 4)))
\* an array decoded from an entry of the EXIF sub-IFD, where counting the
\* stored offset from the TIFF header would have given other numbers
C16_Witness ==
    /\ Matched /\ pc = "done" /\ ret.err = "nil"
    /\ seen[Len(seen)].ifdType = cIFDEXIF
    /\ TypeID(MatchedTag) = Or16(cARRAY, cUSHORT)
    /\ Count(MatchedTag) = U32(MaxCount)
    /\ ret.val.v = [k \in 1..MaxCount |-> k]
    /\ ret.val.v # ArrayOf(MatchedIfd, FromHeaderAt, MaxCount, 2, "uint16")

\* C17: an ASCII entry with count > 1 decodes to a string.
C17_AsciiDecodes ==
    (Matched /\ RawType(MatchedTag) = cASCII /\ Lt32(U32(1), Count(MatchedTag))) =>
        (pc = "done" /\ ret.err = "nil" /\ ret.val.t = "string")

\* C18: an entry whose type field is none of the types of the decode table
\* (0, 7, 13 and above) makes the lookup return an error.
C18_UnknownTypeFails ==
    (Matched /\ RawType(MatchedTag) \notin ((1..12) \ {cUNDEFINED})) =>
        (pc = "done" /\ ret.err # "nil")

\* C19: a scalar rational whose 8 bytes lie in the block and whose
\* denominator is 0 decodes to an infinity or NaN with a nil error; the
\* lookup neither fails nor panics.
ZeroDenominator ==
    /\ Matched /\ TypeID(MatchedTag) \in {cURATIONAL, cSRATIONAL}
    /\ ValueAt + 8 <= Len(block)
    /\ Uint32(endian, block, ValueAt + 4) = U32(0)
C19_ZeroDenominatorDecodes ==
    ZeroDenominator =>
        /\ pc = "done"
        /\ ret.err = "nil"
        /\ ret.val.t = "float64"
        /\ ret.val.v.class \in {"+Inf", "-Inf", "NaN"}
        /\ ret.val.v.class = "NaN" <=> Uint32(endian, block, ValueAt) = U32(0)
\* a signed rational with a negative numerator over 0
C19_Witness == ZeroDenominator /\ pc = "done" /\ ret.val.v.class = "-Inf"

\* ---------------------------------------------- claims on repeated lookups
\* C20: lookups neither change the block nor carry anything over: the block
\* is as every earlier lookup left it, each lookup starts its walk at IFD0,
\* and a lookup returns what every earlier lookup of the same tag ID on the
\* block returned, the first of these being a fresh one.
C20_LookupsAreStateless ==
    /\ \A k \in DOMAIN returned : returned[k].block = block
    /\ scanned # <<>> =>
          scanned[1] = ifdOffsetItem(Add32(tiffOffset, TIFFOffsetToIFD0(block).v), cIFDZERO)
    /\ pc = "done" =>
          \A k \in DOMAIN returned : returned[k].tagID = tagID2Find => returned[k].ret = ret
\* a tag ID found again after a lookup of another tag ID with another result
C20_Witness ==
    /\ Len(returned) = 2 /\ Matched /\ pc = "done"
    /\ returned[1].tagID = tagID2Find
    /\ returned[2].tagID # tagID2Find
    /\ returned[2].ret # ret

\* --------------------------------------- claims on one tag in several IFDs
\* Two results are the same: error, dynamic type and value.
SameRet(a, b) == a.err = b.err /\ a.val.t = b.val.t /\ a.val.v = b.val.v
IsNoValue(r, err) == r.err = err /\ r.val.t = "int" /\ r.val.v = 0

\* C22: when the decoding of the first matching entry fails, the lookup
\* ends there with that error and the value that goes with it (int 0): an
\* error result is always the decode result of the entry the lookup
\* stopped at, whatever entries and IFDs are left.
C22_FirstErrorReturned ==
    /\ (pc = "done" /\ ret.err # "nil") =>
          (Matched /\ SameRet(ret, ReadValue(MatchedIfd, MatchedTag).v)
                   /\ ret.val.t = "int" /\ ret.val.v = 0)
    /\ (Matched /\ TypeID(MatchedTag) = cUNDEFINED) =>
          (pc = "done" /\ IsNoValue(ret, errReadValue))
\* an error returned while a pending IFD holds a decodable entry of the
\* requested tag ID
C22_Witness ==
    /\ Matched /\ pc = "done" /\ ret.err # "nil"
    /\ \E k \in DOMAIN ifdQueue :
          LET t == GetTag(tExifIFD(ifdQueue[k].offset, block, endian), 0)
          IN t.ok /\ TagID(t.v) = tagID2Find /\ TypeID(t.v) = cUSHORT

\* C23: when the next-IFD offset of IFD0 is not 0, the IFD it names (IFD1)
\* is searched: a tag ID that IFD1 holds is found.
Ifd0Link(b) ==
    LET ifd == tExifIFD(U32(10 + Ifd0Off), b, TIFFByteOrder(b).v)
    IN Uint32(ifd.endian, b, 10 + Ifd0Off + 2 + 12 * NumberOfTags(ifd).v)
C23_NextIfdSearched ==
    (pc = "done" /\ Ifd0Link(block) # U32(0)
                 /\ tagID2Find \in IfdTagIDs(block, Ifd0Link(block)[2])) => ~NoMatchSeen

\* The pointer entries read so far that made the walker push a sub-IFD.
SeenEdges == SelectSeq(seen, LAMBDA e : IsEdge(e) /\ e.tagID # tagID2Find)
SeenTag(e) == GetTag(tExifIFD(e.offset, block, endian), e.index).v

\* C26: every IFD is placed from the TIFF header base (byte 10 of the
\* block): IFD0 at 10 + the header's IFD0 offset, and the sub-IFD of every
\* pointer entry at 10 + the 4-byte value of that entry, whatever the
\* offset of the IFD that holds the entry.
C26_SubIfdFromHeaderBase ==
    /\ scanned # <<>> => scanned[1].offset = Add32(U32(10), TIFFOffsetToIFD0(block).v)
    /\ Len(pushed) = Len(SeenEdges)
    /\ \A k \in DOMAIN pushed :
          /\ pushed[k].item.offset = Add32(U32(10), valueOrOffset(SeenTag(SeenEdges[k])))
          /\ pushed[k].item.offset =
                Add32(U32(10), Uint32(endian, SeenTag(SeenEdges[k]).appblock, 8))
\* the Interop IFD, pushed from the EXIF IFD, is scanned at 10 + the value
\* of its pointer entry
C26_Witness ==
    /\ pc = "scan" /\ ifdItem.ifdType = cIFDINTEROP
    /\ pushed[Len(pushed)].from = cIFDEXIF
    /\ ifdItem.offset = U32(10 + InteropOff)
    /\ seen[Len(seen)].ifdType = cIFDINTEROP

\* C27: IFD0 is scanned to its end before an entry of any sub-IFD is
\* read; a requested tag ID that IFD0 holds is answered from IFD0, from its
\* first entry of that tag ID, also when pointer entries come before it;
\* and a lookup of a pointer tag's own ID in IFD0 returns that entry's
\* value without pushing a sub-IFD for it.
Ifd0 == tExifIFD(U32(10 + Ifd0Off), block, endian)
C27_Ifd0First ==
    /\ \A k \in DOMAIN seen :
          seen[k].ifdType # cIFDZERO =>
             LET n == NumberOfTags(Ifd0).v IN
             /\ n < k
             /\ \A j \in 1..n : /\ seen[j].ifdType = cIFDZERO /\ seen[j].index = j - 1
                                /\ seen[j].offset = Ifd0.offset
             /\ \A j \in (n + 1)..Len(seen) : seen[j].ifdType # cIFDZERO
    /\ (~Running /\ tagID2Find \in IfdTagIDs(block, Ifd0Off)) =>
          /\ Matched /\ seen[Len(seen)].ifdType = cIFDZERO
          /\ \A j \in 0..(seen[Len(seen)].index - 1) : TagID(GetTag(Ifd0, j).v) # tagID2Find
          /\ SameRet(ret, ReadValue(Ifd0, MatchedTag).v)
          /\ \A k \in DOMAIN pushed : pushed[k].tagID # tagID2Find
\* Orientation of IFD0 returned from behind the EXIF pointer entry while the
\* pending EXIF IFD holds an Orientation entry too
C27_Witness ==
    /\ Matched /\ tagID2Find = ExifTagOrientation /\ SameRet(ret, Ret(Val("uint16", 1), "nil"))
    /\ seen[Len(seen)].ifdType = cIFDZERO /\ seen[Len(seen)].index > 0
    /\ Len(ifdQueue) > 0
    /\ tagID2Find \in IfdTagIDs(block, ExifOff)

\* ------------------------------------------ more claims on value decoding
\* C28: a matching entry of type unsigned rational, signed rational,
\* float32 or float64 with a count above 1 gives no value: the lookup ends
\* with the decode error and int 0, neither the first element nor a
\* sequence.
C28_NoRationalOrFloatArrays ==
    (Matched /\ RawType(MatchedTag) \in {cURATIONAL, cSRATIONAL, cFLOAT32, cFLOAT64}
             /\ Lt32(U32(1), Count(MatchedTag)))
    => (pc = "done" /\ IsNoValue(ret, errReadValue))
\* MaxCount unsigned rationals with non-zero denominators, found and refused
C28_Witness ==
    /\ Matched /\ pc = "done" /\ ret.err = errReadValue
    /\ RawType(MatchedTag) = cURATIONAL /\ Count(MatchedTag) = U32(MaxCount)
    /\ Uint32(endian, block, ValueAt + 4) # U32(0)

\* C29: in the decoding of an array neither the sum of the owning IFD's
\* base and the stored offset nor the end of the range, start + count *
\* width, wraps around 2^32.
C29_ArrayRangeNeverWraps ==
    (Matched /\ pc = "done" /\ ret.err = "nil" /\ ret.val.t = "slice") =>
        LET lo == Add32(MatchedIfd.offset, valueOrOffset(MatchedTag))
            hi == Add32(lo, MulK32(Count(MatchedTag), ElemWidth(TypeID(MatchedTag))))
        IN Le32(MatchedIfd.offset, lo) /\ Le32(lo, hi)

\* C25: decoded values follow the type table.  With count 1 an unsigned
\* short or long is the slot's value, the 4 bytes read as one number in the
\* byte order of the block, as u16 (its low 16 bits) or u32, and a signed
\* byte, short or long is the two's-complement reading of its low 8, 16 or
\* 32 bits; with count > 1 a byte, short or long array has count elements,
\* element i read at the owning IFD's base + the stored offset + i * width
\* in the byte order of the block.
C25_ValuesFollowTypeTable ==
    (Matched /\ pc = "done") =>
        LET tag == MatchedTag
            slot == Uint32(endian, tag.appblock, 8)
            low8 == slot[2] % 256
            typeID == TypeID(tag)
        IN /\ (Count(tag) = U32(1) /\ RawType(tag) \in {cUSHORT, cULONG, cSBYTE, cSSHORT, cSLONG})
                => ret.err = "nil"
           /\ (Count(tag) = U32(1) /\ RawType(tag) = cUSHORT) =>
                (ret.val.t = "uint16" /\ ret.val.v = slot[2])
           /\ (Count(tag) = U32(1) /\ RawType(tag) = cULONG) =>
                (ret.val.t = "uint32" /\ ret.val.v = slot)
           /\ (Count(tag) = U32(1) /\ RawType(tag) = cSBYTE) =>
                (ret.val.t = "int8" /\ ret.val.v = IF low8 < 128 THEN low8 ELSE low8 - 256)
           /\ (Count(tag) = U32(1) /\ RawType(tag) = cSSHORT) =>
                (ret.val.t = "int16" /\ ret.val.v = IF slot[2] < 32768 THEN slot[2] ELSE slot[2] - W)
           /\ (Count(tag) = U32(1) /\ RawType(tag) = cSLONG) =>
                (ret.val.t = "int32"
                 /\ ret.val.v = IF slot[1] < 32768 THEN slot[1] * W + slot[2]
                                 ELSE (slot[1] - W) * W + slot[2])
           /\ (typeID \in ArrayTypes /\ ret.err = "nil") =>
                /\ Len(ret.val.v) = Count(tag)[2]
                /\ \A k \in 1..Len(ret.val.v) :
                      ret.val.v[k] = ArrayOf(MatchedIfd, ValueAt + (k - 1) * ElemWidth(typeID),
                                             1, ElemWidth(typeID), ElemKind(typeID))[1]
\* the example of the claim: Orientation in a little-endian IFD0, unsigned
\* short, count 1, value 1, gives 1 as uint16
C25_Witness ==
    /\ Matched /\ pc = "done" /\ endian = "LittleEndian"
    /\ seen[Len(seen)].ifdType = cIFDZERO /\ tagID2Find = ExifTagOrientation
    /\ RawType(MatchedTag) = cUSHORT /\ Count(MatchedTag) = U32(1)
    /\ valueOrOffset(MatchedTag) = U32(1)
    /\ ret.err = "nil" /\ ret.val.t = "uint16" /\ ret.val.v = 1

\* ------------------------------------------- claims on the use of an IFD
\* C24: an IFD gives out exactly the entries its 2-byte count declares:
\* GetTag with an index at or above the count is refused, and the loop of
\* FindTag reads the entries 0, 1, ... in order and none at or above the
\* count.
C24_OnlyDeclaredEntries ==
    /\ (pc = "got" /\ i >= NumberOfTags(Ifd0).v) => ret.err # "nil"
    /\ \A k \in DOMAIN seen : seen[k].index = k - 1 /\ seen[k].index < NumberOfTags(Ifd0).v

\* ------------------------------------------ claims on concurrent lookups
\* What tEXIFAPP.ReadValue returns for a block and a tag ID when nothing
\* else runs (basic.go 167-209), as one function; idx < 0 stands for the
\* head of the outer loop.
RECURSIVE Walk(_, _, _, _, _, _)
Walk(b, e, want, queue, item, idx) ==
    IF idx < 0
    THEN IF queue = <<>> THEN Ok(Ret(Val("int", 1), "nil"))
         ELSE LET it == queue[Len(queue)] IN
              IF NumberOfTags(tExifIFD(it.offset, b, e)).ok
              THEN Walk(b, e, want, SubSeq(queue, 1, Len(queue) - 1), it, 0)
              ELSE Panic
    ELSE LET ifd == tExifIFD(item.offset, b, e)
             t == GetTag(ifd, idx)
         IN IF idx >= NumberOfTags(ifd).v THEN Walk(b, e, want, queue, item, 0 - 1)
            ELSE IF ~t.ok THEN Panic
            ELSE LET step == EntryStep(item, TagID(t.v), want, t.v) IN
                 IF step.return THEN ReadValue(ifd, t.v)
                 ELSE Walk(b, e, want, queue \o step.push, item, idx + 1)
ReadValueAlone(b, want) ==
    IF TIFFOffsetToIFD0(b).ok /\ TIFFByteOrder(b).ok
    THEN LET item == ifdOffsetItem(Add32(tiffOffset, TIFFOffsetToIFD0(b).v), cIFDZERO)
         IN Walk(b, TIFFByteOrder(b).v, want, <<item>>, item, 0 - 1)
    ELSE Panic

\* C21: two lookups on one block whose steps interleave in any way each
\* return what they return when run alone.
C21_InterleavingIrrelevant ==
    /\ pc = "done" => SameRet(ret, ReadValueAlone(block, tagID2Find).v)
    /\ pc = "panic" => ~ReadValueAlone(block, tagID2Find).ok
    /\ \A k \in DOMAIN other :
          /\ other[k].pc = "done" =>
                SameRet(other[k].ret, ReadValueAlone(block, other[k].tagID2Find).v)
          /\ other[k].pc # "panic"
\* the first lookup has found its tag in a sub-IFD while the second, looking
\* for another tag, is in the GPS IFD with the EXIF IFD still on its work list
C21_Witness ==
    /\ other # <<>>
    /\ pc = "done" /\ Matched /\ ret.err = "nil" /\ seen[Len(seen)].ifdType # cIFDZERO
    /\ LET o == other[1] IN
         /\ o.id = 2 /\ o.pc = "scan" /\ o.tagID2Find # tagID2Find
         /\ o.ifdItem.ifdType = cIFDGPS
         /\ Len(o.ifdQueue) > 0

\* ------------------------------------------------- claims on GetBasicInfo
Tags(calls) == [k \in DOMAIN calls |-> calls[k].tag]
FiveLookups ==
    <<"SOF0ImageWidth", "SOF0ImageHeight", "IptcTagApplication2Keywords",
      "ExifTagDateTimeOriginal", "IptcTagApplication2Caption">>
Failed(tag) == \E k \in DOMAIN info.calls : info.calls[k].tag = tag /\ info.calls[k].ret.err # "nil"
ZeroWhereFailed ==
    /\ Failed("SOF0ImageWidth") => info.info.Width.t = BasicInfo.Width.t
    /\ Failed("SOF0ImageHeight") => info.info.Height = BasicInfo.Height
    /\ Failed("IptcTagApplication2Keywords") => info.info.Keywords = BasicInfo.Keywords
    /\ Failed("IptcTagApplication2Caption") => info.info.Title = BasicInfo.Title
SomeFailed == \E k \in DOMAIN info.calls : info.calls[k].ret.err # "nil"

\* C30: once a lookup of GetBasicInfo has returned an error, the field of
\* that lookup keeps its zero value, the five lookups (width, height,
\* keywords, DateTimeOriginal, caption) are all made, in this order, and
\* the function returns normally.
C30_FailuresIsolated ==
    SomeFailed =>
        /\ ZeroWhereFailed
        /\ info.pc # "panic"
        /\ Tags(info.calls) = SubSeq(FiveLookups, 1, Len(info.calls))
        /\ info.pc \in {"return", "returned"} => Tags(info.calls) = FiveLookups

====
